---- MODULE Spec2Model ----
(***************************************************************************)
(* AutoLight Analyser: the record store (projects, fixtures, fixture model *)
(* catalog), the Upload page (handleSubmit) and the Results page           *)
(* (loadProjectData, calculateTotalCost, handleModelChange,                *)
(* toggleRecommendations).                                                 *)
(*                                                                         *)
(* Money is kept in integer cents (the store's numeric(10,2)); the         *)
(* JavaScript double arithmetic of the page is not modelled.               *)
(* React state setters called by one continuation of a handler are applied *)
(* together (one render), so one action is one handler continuation: the   *)
(* code from one await to the next.  A handler closes over the state of    *)
(* the render in which it was invoked; that captured state is part of the  *)
(* handler's record while it waits for the store.                          *)
(***************************************************************************)
EXTENDS Integers, Sequences, FiniteSets, TLC

\* ------------------------------------------------------------------ bounds

\* Length of the non-empty catalogs drawn in Init.
NModels == 6
\* Largest fixture quantity (Upload.tsx:147 draws 1..5).
MaxQty == 2
\* Number of values the upload draws for totalFixtures (Upload.tsx:107 draws 50).
FixtureSpread == 2
\* Most handleModelChange invocations of one Results page.
MaxCalls == 2
\* Most times the Results page is opened.
MaxVisits == 1
\* Number of catalog models the rows held at the start draw from.
SeedModels == 3
\* Most handleSubmit runs that reach the project insert.
MaxUploads == 1
\* Number of fixtures of the project the store holds at the start.
SeedLen == 2
\* Longest fixture list handed to calculateTotalCost in SpecCost.
MaxLen == 3
\* Rows other sessions add to fixture_models while the page is open.
MaxInserted == 1
\* Documents exported in a session.
MaxExports == 1

\* ------------------------------------------------------- program constants

\* slice(0, 3) of the recommendation filter.
RecommendationCap == 3
\* .limit(5) of the upload's catalog query.
UploadModelLimit == 5
\* Math.floor(Math.random() * 50) + 10: the smallest totalFixtures, scaled
\* from 10 to keep the fixture batch small.
FixtureBase == 1
\* Math.min(totalFixtures, 15): the cap on the fixture batch, scaled from 15.
FixtureCap == 1

NULL == 0

\* ------------------------------------------------------------------- data

FixtureTypes == {"LED Panel", "LED Downlight"}

\* unit_price of the seeded models, in cents.
SeedPrices == <<4599, 4250, 1299, 1875, 2250, 2800>>

PriceOf(i) == SeedPrices[((i - 1) % Len(SeedPrices)) + 1]

\* selected_model?: the absent join result.
NoModel == [id |-> NULL, fixture_type |-> "", unit_price |-> 0]

Min(a, b) == IF a <= b THEN a ELSE b

\* Array.prototype.slice(0, n)
Slice(s, n) == SubSeq(s, 1, Min(n, Len(s)))

\* Array.prototype.find on the catalog: the first model with that id, or undefined.
FindModel(models, mid) ==
  IF \E i \in 1..Len(models) : models[i].id = mid
  THEN models[CHOOSE i \in 1..Len(models) :
                /\ models[i].id = mid
                /\ \A j \in 1..(i - 1) : models[j].id # mid]
  ELSE NoModel

\* ------------------------------------------------------------------ state

VARIABLES
  catalog,            \* store: table fixture_models, in query order
  dbProjects,         \* store: table projects
  dbFixtures,         \* store: table fixtures
  page,               \* App: currentPage
  selectedProjectId,  \* App: selectedProjectId
  navTimers,          \* the setTimeout callbacks of Upload.tsx:159 not yet run
  file,               \* Upload: file
  projectName,        \* Upload: projectName
  uploading,          \* Upload: uploading
  error,              \* Upload: error
  success,            \* Upload: success
  submits,            \* Upload: the handleSubmit runs not yet finished
  project,            \* Results: project
  fixtures,           \* Results: fixtures
  allModels,          \* Results: allModels
  totalCost,          \* Results: totalCost
  loading,            \* Results: loading
  loads,              \* Results: the loadProjectData runs not yet finished
  calls,              \* Results: the handleModelChange invocations not yet finished
  issued,             \* number of handleModelChange invocations of this Results page
  applied,            \* number of them that reached lines 110-111 (history)
  visits,             \* number of times the Results page was opened
  uploads,            \* number of handleSubmit runs that passed validation
  downloads,          \* the documents exportToPDF has saved (Results.tsx:161)
  projects,           \* Reports: projects
  reportsLoading,     \* Reports: loading
  filter,             \* Reports: filter
  reportLoads,        \* Reports: the loadProjects runs not yet finished
  loadFailed,         \* some loadProjects run of this Reports page took the catch (history)
  shownFor            \* the filter of the run whose answer is in projects (history)

storeVars == <<catalog, dbProjects, dbFixtures>>
appVars == <<page, selectedProjectId, navTimers>>
uploadVars == <<file, projectName, uploading, error, success, submits>>
resultsVars == <<project, fixtures, allModels, totalCost, loading, loads, calls>>
countVars == <<issued, applied, visits, uploads>>
reportVars == <<projects, reportsLoading, filter, reportLoads, loadFailed, shownFor>>
vars == <<catalog, dbProjects, dbFixtures, page, selectedProjectId, navTimers,
          file, projectName, uploading, error, success, submits,
          project, fixtures, allModels, totalCost, loading, loads, calls,
          issued, applied, visits, uploads, downloads,
          projects, reportsLoading, filter, reportLoads, loadFailed, shownFor>>

NoProject == [id |-> NULL, total_fixtures |-> 0, total_cost |-> 0, average_lux |-> 0]

\* gen_random_uuid() of the projects and fixtures tables (part_000:63 and 90):
\* the id of the k-th row, different from every id of the other tables.
ProjectId(k) == 200 + k
FixtureId(k) == 100 + k

\* ------------------------------------------------------------ the catalog

\* The fixture types of the catalogs Init draws: the empty catalog, and one
\* with a type of a single model and a type of more alternatives than the cap.
CatalogTypes ==
  { <<>>,
    [i \in 1..NModels |-> IF i = 3 THEN "LED Downlight" ELSE "LED Panel"] }

MakeCatalog(types) ==
  [i \in 1..Len(types) |->
     [id |-> i, fixture_type |-> types[i], unit_price |-> PriceOf(i)]]

ModelIds(models) == {models[i].id : i \in 1..Len(models)}

\* ----------------------------------------------------- Results: pure code

\* As Recommend, with the last three matches instead of the first three.
Recommend_lastThree(fixture, modelsData) ==
  LET currentType == IF fixture.selected_model = NoModel
                     THEN "undefined"
                     ELSE fixture.selected_model.fixture_type
      keep(model) == /\ model.fixture_type = currentType
                     /\ model.id # fixture.selected_model_id
      matches == SelectSeq(modelsData, keep)
  IN SubSeq(matches, Len(matches) - Min(RecommendationCap, Len(matches)) + 1, Len(matches))

\* As Recommend, without the test model.fixture_type === currentType.
Recommend_anyType(fixture, modelsData) ==
  LET keep(model) == model.id # fixture.selected_model_id
  IN Slice(SelectSeq(modelsData, keep), RecommendationCap)

\* As Recommend, without the test model.id !== fixture.selected_model_id.
Recommend_keepsSelected(fixture, modelsData) ==
  LET currentType == IF fixture.selected_model = NoModel
                     THEN "undefined"
                     ELSE fixture.selected_model.fixture_type
      keep(model) == model.fixture_type = currentType
  IN Slice(SelectSeq(modelsData, keep), RecommendationCap)

\* loadProjectData, the filter of lines 62-68: same type as the selected model,
\* another id, the first three in catalog order.
Recommend(fixture, modelsData) ==
  LET currentType == IF fixture.selected_model = NoModel
                     THEN "undefined"
                     ELSE fixture.selected_model.fixture_type
      keep(model) == /\ model.fixture_type = currentType
                     /\ model.id # fixture.selected_model_id
  IN Slice(SelectSeq(modelsData, keep), RecommendationCap)

\* loadProjectData, lines 60-75.
WithRecommendations(fixturesData, modelsData) ==
  [i \in 1..Len(fixturesData) |->
     [id |-> fixturesData[i].id,
      project_id |-> fixturesData[i].project_id,
      selected_model_id |-> fixturesData[i].selected_model_id,
      quantity |-> fixturesData[i].quantity,
      selected_model |-> fixturesData[i].selected_model,
      recommendations |-> Recommend(fixturesData[i], modelsData),
      showRecommendations |-> FALSE]]

\* selected_model?.unit_price || 0
PriceOrZero(fixture) ==
  IF fixture.selected_model = NoModel THEN 0 ELSE fixture.selected_model.unit_price

\* calculateTotalCost: the reduce, left to right from 0.
RECURSIVE Reduce(_, _, _)
Reduce(fixturesList, i, sum) ==
  IF i > Len(fixturesList) THEN sum
  ELSE Reduce(fixturesList, i + 1,
              sum + PriceOrZero(fixturesList[i]) * fixturesList[i].quantity)

\* As calculateTotalCost, without the multiplication by fixture.quantity.
RECURSIVE calculateTotalCost_ignoresQuantity(_)
calculateTotalCost_ignoresQuantity(fixturesList) ==
  IF fixturesList = <<>> THEN 0
  ELSE PriceOrZero(Head(fixturesList)) + calculateTotalCost_ignoresQuantity(Tail(fixturesList))

calculateTotalCost(fixturesList) == Reduce(fixturesList, 1, 0)

\* As UpdatedFixtures, with the recommendations of the changed fixture
\* computed again for its new model.
UpdatedFixtures_recomputes(fixturesList, models, fixtureId, newModelId) ==
  LET newModel == FindModel(models, newModelId)
  IN [i \in 1..Len(fixturesList) |->
        IF fixturesList[i].id = fixtureId
        THEN [fixturesList[i] EXCEPT
                !.selected_model_id = newModelId,
                !.selected_model = newModel,
                !.recommendations =
                   Recommend([selected_model_id |-> newModelId, selected_model |-> newModel],
                             models)]
        ELSE fixturesList[i]]

\* handleModelChange, lines 103-108.
UpdatedFixtures(fixturesList, models, fixtureId, newModelId) ==
  LET newModel == FindModel(models, newModelId)
  IN [i \in 1..Len(fixturesList) |->
        IF fixturesList[i].id = fixtureId
        THEN [fixturesList[i] EXCEPT !.selected_model_id = newModelId,
                                     !.selected_model = newModel]
        ELSE fixturesList[i]]

\* As Toggled, with showRecommendations set to true instead of negated.
Toggled_alwaysShows(fixturesList, fixtureId) ==
  [i \in 1..Len(fixturesList) |->
     IF fixturesList[i].id = fixtureId
     THEN [fixturesList[i] EXCEPT !.showRecommendations = TRUE]
     ELSE fixturesList[i]]

\* toggleRecommendations, lines 119-123.
Toggled(fixturesList, fixtureId) ==
  [i \in 1..Len(fixturesList) |->
     IF fixturesList[i].id = fixtureId
     THEN [fixturesList[i] EXCEPT
             !.showRecommendations = ~fixturesList[i].showRecommendations]
     ELSE fixturesList[i]]

\* ------------------------------------------------------------ store: queries

\* from('projects').select('*').eq('id', projectId).maybeSingle()
QueryProject(pid) ==
  IF \E i \in 1..Len(dbProjects) : dbProjects[i].id = pid
  THEN dbProjects[CHOOSE i \in 1..Len(dbProjects) : dbProjects[i].id = pid]
  ELSE NoProject

\* from('fixtures').select('*, selected_model:fixture_models!...(*)').eq('project_id', projectId)
QueryFixtures(pid) ==
  LET ofProject(row) == row.project_id = pid
      rows == SelectSeq(dbFixtures, ofProject)
  IN [i \in 1..Len(rows) |->
        [id |-> rows[i].id,
         project_id |-> rows[i].project_id,
         selected_model_id |-> rows[i].selected_model_id,
         quantity |-> rows[i].quantity,
         selected_model |-> FindModel(catalog, rows[i].selected_model_id)]]

\* from('fixtures').update({ selected_model_id }).eq('id', fixtureId)
UpdateFixtureRow(rows, fixtureId, newModelId) ==
  [i \in 1..Len(rows) |->
     IF rows[i].id = fixtureId
     THEN [rows[i] EXCEPT !.selected_model_id = newModelId]
     ELSE rows[i]]

RemoveAt(s, c) == [i \in 1..(Len(s) - 1) |-> IF i < c THEN s[i] ELSE s[i + 1]]

\* ------------------------------------------------------------------- Init

NoFile == [ext |-> "", size |-> 0]

\* useState initial values, Upload.tsx:6-11.
UploadMounted ==
  /\ file' = NoFile
  /\ projectName' = ""
  /\ uploading' = FALSE
  /\ error' = ""
  /\ success' = FALSE

\* useState initial values, Results.tsx:20-24.
ResultsMounted ==
  /\ project' = NoProject
  /\ fixtures' = <<>>
  /\ allModels' = <<>>
  /\ totalCost' = 0
  /\ loading' = TRUE

\* Everything but the store: the application right after it starts, on the
\* dashboard, no page component of the model mounted.
InitApplication ==
  /\ page = "dashboard"
  /\ selectedProjectId = NULL
  /\ navTimers = <<>>
  /\ file = NoFile
  /\ projectName = ""
  /\ uploading = FALSE
  /\ error = ""
  /\ success = FALSE
  /\ submits = <<>>
  /\ project = NoProject
  /\ fixtures = <<>>
  /\ allModels = <<>>
  /\ totalCost = 0
  /\ loading = TRUE
  /\ loads = <<>>
  /\ calls = <<>>
  /\ issued = 0
  /\ applied = 0
  /\ visits = 0
  /\ uploads = 0
  /\ downloads = <<>>
  /\ projects = <<>>
  /\ reportsLoading = TRUE
  /\ filter = "all"
  /\ reportLoads = <<>>
  /\ loadFailed = FALSE
  /\ shownFor = "none"

\* The fixture rows of a project the store holds before the session: the
\* schema lets selected_model_id be NULL and otherwise makes it reference a
\* row of fixture_models (part_000:94), quantity is an integer (part_000:95).
SeedRows(models) ==
  LET ids == {id \in ModelIds(models) : id <= SeedModels} \cup {NULL}
  IN {<<>>} \cup
     { [i \in 1..SeedLen |-> [selected_model_id |-> sel[i],
                              quantity |-> ((i - 1) % MaxQty) + 1]] :
         sel \in [1..SeedLen -> ids] }

\* A store that holds a catalog and one project with its fixtures.
Init ==
  /\ \E types \in CatalogTypes : catalog = MakeCatalog(types)
  /\ dbProjects = <<[id |-> ProjectId(1), total_fixtures |-> SeedLen, total_cost |-> 0,
                     average_lux |-> 300]>>
  /\ \E seed \in SeedRows(catalog) :
       dbFixtures = [i \in 1..Len(seed) |->
                       [id |-> FixtureId(i), project_id |-> ProjectId(1),
                        selected_model_id |-> seed[i].selected_model_id,
                        quantity |-> seed[i].quantity]]
  /\ InitApplication

\* A store that holds a catalog and no project yet.
InitEmpty ==
  /\ \E types \in CatalogTypes : catalog = MakeCatalog(types)
  /\ dbProjects = <<>>
  /\ dbFixtures = <<>>
  /\ InitApplication

\* ------------------------------------------------------------- navigation

\* A component that goes away: its running handlers keep their store requests
\* and timers, their state setters no longer reach any state.
Orphaned(runs) == [i \in 1..Len(runs) |-> [runs[i] EXCEPT !.live = FALSE]]

\* The handleModelChange invocations of a Results page that goes away: what
\* they captured is never written anywhere.
OrphanedCalls(cs) ==
  [i \in 1..Len(cs) |-> [cs[i] EXCEPT !.live = FALSE, !.fixtures = <<>>, !.allModels = <<>>]]

\* The effect of Results.tsx:26-30 starts loadProjectData when there is a projectId.
StartLoad(running, pid) ==
  IF pid # NULL
  THEN Append(running, [pc |-> "project", projectId |-> pid, fixturesData |-> <<>>])
  ELSE running

\* Dashboard (part_002:270) and Reports (Reports.tsx:134):
\* onNavigate('results', project.id) on a listed project.
OpenProject(pid) ==
  /\ page = "dashboard"
  /\ visits < MaxVisits
  /\ page' = "results"
  /\ selectedProjectId' = pid
  /\ ResultsMounted
  /\ loads' = StartLoad(<<>>, pid)
  /\ issued' = 0
  /\ applied' = 0
  /\ visits' = visits + 1
  /\ UNCHANGED <<storeVars, downloads, reportVars, navTimers, uploadVars, calls, uploads>>

\* Results: onNavigate('dashboard') (lines 177 and 191, and the navigation bar).
\* The component and its state go away.
BackToDashboard ==
  /\ page = "results"
  /\ page' = "dashboard"
  /\ selectedProjectId' = NULL
  /\ ResultsMounted
  /\ loads' = <<>>
  /\ calls' = OrphanedCalls(calls)
  /\ UNCHANGED <<storeVars, downloads, reportVars, navTimers, uploadVars, countVars>>

\* ------------------------------------------------- Results: loadProjectData

\* lines 34-41: the answer to the project query; on an error catch (line 80)
\* and finally (line 82).
LoadProject(l) ==
  /\ loads[l].pc = "project"
  /\ \/ /\ project' = QueryProject(loads[l].projectId)
        /\ loads' = [loads EXCEPT ![l].pc = "fixtures"]
        /\ UNCHANGED loading
     \/ /\ loading' = FALSE
        /\ loads' = RemoveAt(loads, l)
        /\ UNCHANGED project
  /\ UNCHANGED <<storeVars, downloads, reportVars, appVars, uploadVars, fixtures, allModels, totalCost, calls,
                 countVars>>

\* lines 43-51: the answer to the fixtures query.
LoadFixtures(l) ==
  /\ loads[l].pc = "fixtures"
  /\ \/ /\ loads' = [loads EXCEPT ![l].pc = "models",
                                  ![l].fixturesData = QueryFixtures(loads[l].projectId)]
        /\ UNCHANGED loading
     \/ /\ loading' = FALSE
        /\ loads' = RemoveAt(loads, l)
  /\ UNCHANGED <<storeVars, downloads, reportVars, appVars, uploadVars, project, fixtures, allModels, totalCost,
                 calls, countVars>>

\* lines 53-78 and 82: the answer to the catalog query, the recommendations,
\* setFixtures and calculateTotalCost.
LoadModels(l) ==
  /\ loads[l].pc = "models"
  /\ loads' = RemoveAt(loads, l)
  /\ loading' = FALSE
  /\ \/ /\ allModels' = catalog
        /\ fixtures' = WithRecommendations(loads[l].fixturesData, catalog)
        /\ totalCost' = calculateTotalCost(fixtures')
     \/ UNCHANGED <<fixtures, allModels, totalCost>>
  /\ UNCHANGED <<storeVars, downloads, reportVars, appVars, uploadVars, project, calls, countVars>>

\* ---------------------------------------------- Results: the fixture table

\* lines 164-184: the table is rendered once loading is over and a project is there.
TableShown == page = "results" /\ ~loading /\ project # NoProject

\* As toggleRecommendations, with the lists of the other fixtures closed.
toggleRecommendations_accordion(i) ==
  /\ TableShown
  /\ Len(fixtures[i].recommendations) > 0
  /\ fixtures' = [j \in 1..Len(fixtures) |->
                    IF j = i
                    THEN [fixtures[j] EXCEPT
                            !.showRecommendations = ~fixtures[j].showRecommendations]
                    ELSE [fixtures[j] EXCEPT !.showRecommendations = FALSE]]
  /\ UNCHANGED <<storeVars, downloads, reportVars, appVars, uploadVars, project, allModels, totalCost, loading,
                 loads, calls, countVars>>

\* toggleRecommendations (lines 117-125), from the button of lines 294-311.
toggleRecommendations(i) ==
  /\ TableShown
  /\ Len(fixtures[i].recommendations) > 0
  /\ fixtures' = Toggled(fixtures, fixtures[i].id)
  /\ UNCHANGED <<storeVars, downloads, reportVars, appVars, uploadVars, project, allModels, totalCost, loading,
                 loads, calls, countVars>>

\* As handleModelChange, with fixture.id passed where rec.id belongs (line 325).
handleModelChange_passesFixtureId(i, r) ==
  /\ TableShown
  /\ fixtures[i].showRecommendations
  /\ issued < MaxCalls
  /\ issued' = issued + 1
  /\ calls' = Append(calls, [fixtureId |-> fixtures[i].id,
                             newModelId |-> fixtures[i].id,
                             fixtures |-> fixtures,
                             allModels |-> allModels,
                             status |-> "pending",
                             live |-> TRUE])
  /\ UNCHANGED <<storeVars, downloads, reportVars, appVars, uploadVars, project, fixtures, allModels, totalCost,
                 loading, loads, applied, visits, uploads>>

\* As handleModelChange, with the in-memory update done when the request
\* leaves, before the store has answered.
handleModelChange_optimistic(i, r) ==
  /\ TableShown
  /\ fixtures[i].showRecommendations
  /\ issued < MaxCalls
  /\ issued' = issued + 1
  /\ fixtures' = UpdatedFixtures(fixtures, allModels, fixtures[i].id,
                                 fixtures[i].recommendations[r].id)
  /\ totalCost' = calculateTotalCost(fixtures')
  /\ calls' = Append(calls, [fixtureId |-> fixtures[i].id,
                             newModelId |-> fixtures[i].recommendations[r].id,
                             fixtures |-> fixtures',
                             allModels |-> allModels,
                             status |-> "pending",
                             live |-> TRUE])
  /\ UNCHANGED <<storeVars, downloads, reportVars, appVars, uploadVars, project, allModels,
                 loading, loads, applied, visits, uploads>>

\* handleModelChange, lines 94-99: the update request leaves; the handler keeps
\* the fixtures and allModels of the render whose button was clicked
\* (lines 314-326).
handleModelChange(i, r) ==
  /\ TableShown
  /\ fixtures[i].showRecommendations
  /\ issued < MaxCalls
  /\ issued' = issued + 1
  /\ calls' = Append(calls, [fixtureId |-> fixtures[i].id,
                             newModelId |-> fixtures[i].recommendations[r].id,
                             fixtures |-> fixtures,
                             allModels |-> allModels,
                             status |-> "pending",
                             live |-> TRUE])
  /\ UNCHANGED <<storeVars, downloads, reportVars, appVars, uploadVars, project, fixtures, allModels, totalCost,
                 loading, loads, applied, visits, uploads>>

\* The store serves the update request of call c: the row is written, or the
\* request fails.  selected_model_id references fixture_models (part_000:94).
StoreUpdate(c) ==
  /\ calls[c].status = "pending"
  /\ \/ /\ calls[c].newModelId \in ModelIds(catalog)
        /\ dbFixtures' = UpdateFixtureRow(dbFixtures, calls[c].fixtureId, calls[c].newModelId)
        /\ calls' = [calls EXCEPT ![c].status = "ok"]
     \/ /\ calls' = [calls EXCEPT ![c].status = "error"]
        /\ UNCHANGED dbFixtures
  /\ UNCHANGED <<downloads, reportVars, catalog, dbProjects, appVars, uploadVars, project, fixtures, allModels,
                 totalCost, loading, loads, countVars>>

\* As ModelChangeApplied, without the call of calculateTotalCost (line 111).
ModelChangeApplied_noRecalculation(c) ==
  /\ calls[c].status = "ok"
  /\ calls' = RemoveAt(calls, c)
  /\ IF calls[c].live
     THEN /\ fixtures' = UpdatedFixtures(calls[c].fixtures, calls[c].allModels,
                                         calls[c].fixtureId, calls[c].newModelId)
          /\ applied' = applied + 1
     ELSE UNCHANGED <<fixtures, applied>>
  /\ UNCHANGED <<storeVars, downloads, reportVars, appVars, uploadVars, project, allModels, totalCost, loading,
                 loads, issued, visits, uploads>>

\* As ModelChangeApplied, with the new total written to the project record.
ModelChangeApplied_savesTotal(c) ==
  /\ calls[c].status = "ok"
  /\ calls' = RemoveAt(calls, c)
  /\ IF calls[c].live
     THEN /\ fixtures' = UpdatedFixtures(calls[c].fixtures, calls[c].allModels,
                                         calls[c].fixtureId, calls[c].newModelId)
          /\ totalCost' = calculateTotalCost(fixtures')
          /\ applied' = applied + 1
          /\ dbProjects' = [k \in 1..Len(dbProjects) |->
                              IF dbProjects[k].id = project.id
                              THEN [dbProjects[k] EXCEPT !.total_cost = totalCost']
                              ELSE dbProjects[k]]
     ELSE UNCHANGED <<fixtures, totalCost, applied, dbProjects>>
  /\ UNCHANGED <<downloads, reportVars, catalog, dbFixtures, appVars, uploadVars, project, allModels, loading, loads,
                 issued, visits, uploads>>

\* As ModelChangeApplied, with the model just selected taken out of allModels.
ModelChangeApplied_dropsModel(c) ==
  /\ calls[c].status = "ok"
  /\ calls' = RemoveAt(calls, c)
  /\ IF calls[c].live
     THEN /\ fixtures' = UpdatedFixtures(calls[c].fixtures, calls[c].allModels,
                                         calls[c].fixtureId, calls[c].newModelId)
          /\ totalCost' = calculateTotalCost(fixtures')
          /\ applied' = applied + 1
          /\ LET others(m) == m.id # calls[c].newModelId
             IN allModels' = SelectSeq(allModels, others)
     ELSE UNCHANGED <<fixtures, totalCost, applied, allModels>>
  /\ UNCHANGED <<storeVars, downloads, reportVars, appVars, uploadVars, project, loading, loads,
                 issued, visits, uploads>>

\* handleModelChange, lines 101-111: the continuation after a successful update.
ModelChangeApplied(c) ==
  /\ calls[c].status = "ok"
  /\ calls' = RemoveAt(calls, c)
  /\ IF calls[c].live
     THEN /\ fixtures' = UpdatedFixtures(calls[c].fixtures, calls[c].allModels,
                                         calls[c].fixtureId, calls[c].newModelId)
          /\ totalCost' = calculateTotalCost(fixtures')
          /\ applied' = applied + 1
     ELSE UNCHANGED <<fixtures, totalCost, applied>>
  /\ UNCHANGED <<storeVars, downloads, reportVars, appVars, uploadVars, project, allModels, loading, loads,
                 issued, visits, uploads>>

\* As ModelChangeFailed, with the in-memory update done before the error is seen.
ModelChangeFailed_appliesAnyway(c) ==
  /\ calls[c].status = "error"
  /\ calls' = RemoveAt(calls, c)
  /\ IF calls[c].live
     THEN /\ fixtures' = UpdatedFixtures(calls[c].fixtures, calls[c].allModels,
                                         calls[c].fixtureId, calls[c].newModelId)
          /\ totalCost' = calculateTotalCost(fixtures')
     ELSE UNCHANGED <<fixtures, totalCost>>
  /\ UNCHANGED <<storeVars, downloads, reportVars, appVars, uploadVars, project, allModels, loading, loads,
                 countVars>>

\* As ModelChangeFailed, with the update sent again after an error.
ModelChangeFailed_retries(c) ==
  /\ calls[c].status = "error"
  /\ calls' = [calls EXCEPT ![c].status = "pending"]
  /\ UNCHANGED <<storeVars, downloads, reportVars, appVars, uploadVars, project, fixtures, allModels, totalCost,
                 loading, loads, countVars>>

\* handleModelChange, lines 101 and 112-114: the continuation after an error.
ModelChangeFailed(c) ==
  /\ calls[c].status = "error"
  /\ calls' = RemoveAt(calls, c)
  /\ UNCHANGED <<storeVars, downloads, reportVars, appVars, uploadVars, project, fixtures, allModels, totalCost,
                 loading, loads, countVars>>

\* ------------------------------------------------------------ Upload: files

\* 50 * 1024 * 1024 (Upload.tsx:27 and 51)
MaxFileBytes == 50 * 1024 * 1024

\* The files offered to the page: the part of the name after the last dot,
\* as written, and the size in bytes.
Files == [ext : {"dwg", "DXF", "pdf"}, size : {MaxFileBytes, MaxFileBytes + 1}]

\* String.prototype.toLowerCase on the extensions of Files.
ToLowerCase(str) ==
  CASE str = "DXF" -> "dxf"
    [] str = "DWG" -> "dwg"
    [] OTHER -> str

\* The values typed into the project name field, and the name taken from
\* the file (its name without the .dwg / .dxf ending).
TypedNames == {"", " ", "Office"}
NameOfFile(f) == "plan"

\* String.prototype.trim on the names above.
Trim(str) == IF str = " " THEN "" ELSE str

BadExtension(f) == ToLowerCase(f.ext) # "dwg" /\ ToLowerCase(f.ext) # "dxf"
\* As TooLarge, without the size test.
TooLarge_never(f) == FALSE

TooLarge(f) == f.size > MaxFileBytes

\* ---------------------------------------------------------- Upload: the form

FormShown == page = "upload"

\* onChange of the project name field (disabled while uploading).
setProjectName(name) ==
  /\ FormShown
  /\ ~uploading
  /\ name # projectName
  /\ projectName' = name
  /\ UNCHANGED <<storeVars, downloads, reportVars, appVars, file, uploading, error, success, submits,
                 resultsVars, countVars>>

\* handleFileChange (lines 14-38); the input exists while no file is chosen,
\* f = NoFile is a file dialog closed without a choice.
handleFileChange(f) ==
  /\ FormShown
  /\ file = NoFile
  /\ ~uploading
  /\ success' = FALSE
  /\ IF f = NoFile
     THEN /\ error' = ""
          /\ UNCHANGED <<file, projectName>>
     ELSE IF BadExtension(f)
     THEN /\ error' = "Please upload a valid .dwg or .dxf file"
          /\ file' = NoFile
          /\ UNCHANGED projectName
     ELSE IF TooLarge(f)
     THEN /\ error' = "File size must be less than 50MB"
          /\ file' = NoFile
          /\ UNCHANGED projectName
     ELSE /\ error' = ""
          /\ file' = f
          /\ projectName' = IF projectName = "" THEN NameOfFile(f) ELSE projectName
  /\ UNCHANGED <<storeVars, downloads, reportVars, appVars, uploading, submits, resultsVars, countVars>>

\* handleDrop (lines 40-63); the drop zone exists while no file is chosen.
handleDrop(f) ==
  /\ FormShown
  /\ file = NoFile
  /\ IF BadExtension(f)
     THEN /\ error' = "Please upload a valid .dwg or .dxf file"
          /\ UNCHANGED <<file, projectName, success>>
     ELSE IF TooLarge(f)
     THEN /\ error' = "File size must be less than 50MB"
          /\ UNCHANGED <<file, projectName, success>>
     ELSE /\ file' = f
          /\ projectName' = IF projectName = "" THEN NameOfFile(f) ELSE projectName
          /\ error' = ""
          /\ success' = FALSE
  /\ UNCHANGED <<storeVars, downloads, reportVars, appVars, uploading, submits, resultsVars, countVars>>

\* removeFile (lines 69-76); the button exists while a file is chosen and no
\* upload runs.
removeFile ==
  /\ FormShown
  /\ file # NoFile
  /\ ~uploading
  /\ file' = NoFile
  /\ error' = ""
  /\ success' = FALSE
  /\ UNCHANGED <<storeVars, downloads, reportVars, appVars, projectName, uploading, submits, resultsVars,
                 countVars>>

\* ------------------------------------------------------ Upload: handleSubmit

\* handleSubmit, lines 85-104: validation, then simulateProcessing and the
\* project insert request.  The submit button is disabled without a file and
\* while uploading (lines 257-258).
handleSubmit ==
  /\ FormShown
  /\ file # NoFile
  /\ ~uploading
  /\ success' = FALSE
  /\ IF file = NoFile
     THEN /\ error' = "Please select a file to upload"
          /\ UNCHANGED <<uploading, submits, uploads>>
     ELSE IF Trim(projectName) = ""
     THEN /\ error' = "Please enter a project name"
          /\ UNCHANGED <<uploading, submits, uploads>>
     ELSE /\ uploads < MaxUploads
          /\ uploads' = uploads + 1
          /\ error' = ""
          /\ uploading' = TRUE
          /\ submits' = Append(submits, [pc |-> "insertProject", live |-> TRUE,
                                         totalFixtures |-> 0, projectId |-> NULL,
                                         fixturesData |-> <<>>])
  /\ UNCHANGED <<storeVars, downloads, reportVars, appVars, file, projectName, resultsVars, issued, applied,
                 visits>>

\* As SubmitFailed, without the finally block.
SubmitFailed_keepsUploading(s) ==
  /\ submits' = RemoveAt(submits, s)
  /\ IF submits[s].live
     THEN error' = "Failed to upload and process file. Please try again."
     ELSE UNCHANGED error
  /\ UNCHANGED <<uploading, success, navTimers>>

\* catch (lines 163-165) and finally (lines 166-168) of run s.
SubmitFailed(s) ==
  /\ submits' = RemoveAt(submits, s)
  /\ IF submits[s].live
     THEN /\ error' = "Failed to upload and process file. Please try again."
          /\ uploading' = FALSE
     ELSE UNCHANGED <<error, uploading>>
  /\ UNCHANGED <<success, navTimers>>

\* Math.floor(Math.random() * 200) + 300 (line 110): the least and the
\* greatest value.
AverageLux == {300, 499}

\* As StoreError, with a compensating delete of the project row of the run.
StoreError_rollsBack(s, pc) ==
  /\ submits[s].pc = pc
  /\ SubmitFailed(s)
  /\ dbProjects' = SelectSeq(dbProjects, LAMBDA row : row.id # submits[s].projectId)
  /\ UNCHANGED <<downloads, reportVars, catalog, dbFixtures, page, selectedProjectId, file, projectName,
                 resultsVars, countVars>>

\* A store call of run s, waiting at step pc, is answered with an error:
\* the throw of line 126, 133 or 156.
StoreError(s, pc) ==
  /\ submits[s].pc = pc
  /\ SubmitFailed(s)
  /\ UNCHANGED <<storeVars, downloads, reportVars, page, selectedProjectId, file, projectName,
                 resultsVars, countVars>>

\* lines 106-126: totalFixtures, totalCost and avgLux are drawn, the store
\* answers the project insert with the new row.  avgCostPerFixture is 35.50.
ProjectInserted(s) ==
  /\ submits[s].pc = "insertProject"
  /\ \E totalFixtures \in FixtureBase..(FixtureBase + FixtureSpread - 1), avgLux \in AverageLux :
       LET id == ProjectId(Len(dbProjects) + 1)
       IN /\ dbProjects' = Append(dbProjects,
                                  [id |-> id,
                                   total_fixtures |-> totalFixtures,
                                   total_cost |-> totalFixtures * 3550,
                                   average_lux |-> avgLux])
          /\ submits' = [submits EXCEPT ![s].pc = "queryModels",
                                        ![s].totalFixtures = totalFixtures,
                                        ![s].projectId = id]
  /\ UNCHANGED <<downloads, reportVars, catalog, dbFixtures, page, selectedProjectId, file, projectName,
                 error, uploading, success, navTimers, resultsVars, countVars>>

\* lines 106-126 with either answer of the store.
InsertProject(s) == ProjectInserted(s) \/ StoreError(s, "insertProject")

\* The fixture batches of lines 139-150 for a catalog answer and a totalFixtures:
\* every fixture gets the id of a random model of the answer and a random quantity.
Batches(models, totalFixtures) ==
  [1..Min(totalFixtures, FixtureCap) ->
     [selected_model_id : ModelIds(models), quantity : 1..MaxQty]]

\* lines 128-154: the store answers the catalog query (limit 5) with its rows,
\* the fixture batch is built and its insert requested.  With no model in the
\* answer randomModel is undefined, line 146 throws a TypeError and the catch
\* of line 163 takes it.
ModelsAnswered(s) ==
  /\ submits[s].pc = "queryModels"
  /\ IF Len(Slice(catalog, UploadModelLimit)) > 0
     THEN /\ \E batch \in Batches(Slice(catalog, UploadModelLimit), submits[s].totalFixtures) :
               submits' = [submits EXCEPT ![s].pc = "insertFixtures",
                                          ![s].fixturesData = batch]
          /\ UNCHANGED <<error, uploading, success, navTimers>>
     ELSE SubmitFailed(s)
  /\ UNCHANGED <<storeVars, downloads, reportVars, page, selectedProjectId, file, projectName,
                 resultsVars, countVars>>

\* lines 128-154 with either answer of the store.
QueryModels(s) == ModelsAnswered(s) \/ StoreError(s, "queryModels")

\* lines 152-161 and 166-168: the store answers the fixture batch insert
\* without error; selected_model_id references fixture_models (part_000:94).
FixturesInserted(s) ==
  /\ submits[s].pc = "insertFixtures"
  /\ LET batch == submits[s].fixturesData
     IN /\ \A i \in 1..Len(batch) : batch[i].selected_model_id \in ModelIds(catalog)
        /\ dbFixtures' = dbFixtures \o
                           [i \in 1..Len(batch) |->
                              [id |-> FixtureId(Len(dbFixtures) + i),
                               project_id |-> submits[s].projectId,
                               selected_model_id |-> batch[i].selected_model_id,
                               quantity |-> batch[i].quantity]]
        /\ submits' = RemoveAt(submits, s)
        /\ navTimers' = Append(navTimers, submits[s].projectId)
        /\ IF submits[s].live
           THEN success' = TRUE /\ uploading' = FALSE
           ELSE UNCHANGED <<success, uploading>>
        /\ UNCHANGED error
  /\ UNCHANGED <<downloads, reportVars, catalog, dbProjects, page, selectedProjectId, file, projectName,
                 resultsVars, countVars>>

\* lines 152-168 with either answer of the store.
InsertFixtures(s) == FixturesInserted(s) \/ StoreError(s, "insertFixtures")

\* ---------------------------------------------------- navigation: the rest

\* onNavigate('upload') of the navigation bar (part_000, Layout) and of
\* Reports.tsx:76, from the dashboard or from the Results page.
GoUpload ==
  /\ page # "upload"
  /\ uploads < MaxUploads
  /\ page' = "upload"
  /\ selectedProjectId' = NULL
  /\ UploadMounted
  /\ ResultsMounted
  /\ loads' = <<>>
  /\ calls' = OrphanedCalls(calls)
  /\ UNCHANGED <<storeVars, downloads, reportVars, navTimers, submits, countVars>>

\* onNavigate('dashboard') from the Upload page: Cancel (line 281, disabled
\* while uploading) or the navigation bar.
LeaveUpload ==
  /\ page = "upload"
  /\ page' = "dashboard"
  /\ selectedProjectId' = NULL
  /\ UploadMounted
  /\ submits' = Orphaned(submits)
  /\ UNCHANGED <<storeVars, downloads, reportVars, navTimers, resultsVars, countVars>>

\* The timer of Upload.tsx:159-161 runs onNavigate('results', projectData.id).
\* A Results page already shown stays mounted: a new projectId restarts the
\* effect of Results.tsx:26-30 and nothing else.
NavigateTimer(t) ==
  /\ navTimers' = RemoveAt(navTimers, t)
  /\ IF page = "results"
     THEN /\ UNCHANGED <<page, project, fixtures, allModels, totalCost, loading, calls,
                         uploadVars, countVars>>
          /\ selectedProjectId' = navTimers[t]
          /\ loads' = IF selectedProjectId = navTimers[t]
                      THEN loads
                      ELSE StartLoad(loads, navTimers[t])
     ELSE /\ visits < MaxVisits
          /\ visits' = visits + 1
          /\ issued' = 0
          /\ applied' = 0
          /\ page' = "results"
          /\ selectedProjectId' = navTimers[t]
          /\ UploadMounted
          /\ submits' = Orphaned(submits)
          /\ ResultsMounted
          /\ loads' = StartLoad(<<>>, navTimers[t])
          /\ UNCHANGED <<calls, uploads>>
  /\ UNCHANGED <<storeVars, downloads, reportVars>>

\* ------------------------------------------------------------------- Next

\* The Results page over a store that holds one project.
Next ==
  \/ \E pid \in {dbProjects[i].id : i \in 1..Len(dbProjects)} : OpenProject(pid)
  \/ BackToDashboard
  \/ \E l \in 1..Len(loads) : LoadProject(l)
  \/ \E l \in 1..Len(loads) : LoadFixtures(l)
  \/ \E l \in 1..Len(loads) : LoadModels(l)
  \/ \E i \in 1..Len(fixtures) : toggleRecommendations(i)
  \/ \E i \in 1..Len(fixtures) :
       \E r \in 1..Len(fixtures[i].recommendations) : handleModelChange(i, r)
  \/ \E c \in 1..Len(calls) : StoreUpdate(c)
  \/ \E c \in 1..Len(calls) : ModelChangeApplied(c)
  \/ \E c \in 1..Len(calls) : ModelChangeFailed(c)

Spec == Init /\ [][Next]_vars

\* The whole application over a store that starts without projects.
NextApp ==
  \/ Next
  \/ GoUpload
  \/ LeaveUpload
  \/ \E name \in TypedNames : setProjectName(name)
  \/ \E f \in Files \cup {NoFile} : handleFileChange(f)
  \/ \E f \in Files : handleDrop(f)
  \/ removeFile
  \/ handleSubmit
  \/ \E s \in 1..Len(submits) : InsertProject(s)
  \/ \E s \in 1..Len(submits) : QueryModels(s)
  \/ \E s \in 1..Len(submits) : InsertFixtures(s)
  \/ \E t \in 1..Len(navTimers) : NavigateTimer(t)

SpecApp == InitEmpty /\ [][NextApp]_vars

\* ------------------------------------------- calculateTotalCost on any list

\* The fixture lists handed to calculateTotalCost: any quantities, and as
\* selected model any model of the catalog or none.
CostLists ==
  LET models == MakeCatalog([i \in 1..NModels |-> "LED Panel"])
      entry == [selected_model : {models[i] : i \in 1..NModels} \cup {NoModel},
                quantity : 1..MaxQty]
  IN UNION {[1..n -> entry] : n \in 0..MaxLen}

\* A Results page that is about to call calculateTotalCost on a list, as
\* line 78 does at the end of the load.
InitCost ==
  /\ catalog = MakeCatalog([i \in 1..NModels |-> "LED Panel"])
  /\ dbProjects = <<>>
  /\ dbFixtures = <<>>
  /\ page = "results"
  /\ selectedProjectId = NULL
  /\ navTimers = <<>>
  /\ file = NoFile
  /\ projectName = ""
  /\ uploading = FALSE
  /\ error = ""
  /\ success = FALSE
  /\ submits = <<>>
  /\ project = NoProject
  /\ fixtures \in CostLists
  /\ allModels = catalog
  /\ totalCost = 0
  /\ loading = TRUE
  /\ loads = <<>>
  /\ calls = <<>>
  /\ issued = 0
  /\ applied = 0
  /\ visits = 0
  /\ uploads = 0
  /\ downloads = <<>>
  /\ projects = <<>>
  /\ reportsLoading = TRUE
  /\ filter = "all"
  /\ reportLoads = <<>>
  /\ loadFailed = FALSE
  /\ shownFor = "none"

\* calculateTotalCost(fixtures) and setLoading(false), lines 78 and 82.
CalculateTotal ==
  /\ loading
  /\ totalCost' = calculateTotalCost(fixtures)
  /\ loading' = FALSE
  /\ UNCHANGED <<storeVars, downloads, reportVars, appVars, uploadVars, project, fixtures, allModels, loads,
                 calls, countVars>>

NextCost == CalculateTotal

SpecCost == InitCost /\ [][NextCost]_vars

\* ------------------------------------------------- Results: exportToPDF

\* `$${x.toFixed(2)}` of an amount of cents: a dollar sign, the dollars, a
\* point and two decimal digits.
Money(cents) ==
  [sign |-> "$", dollars |-> cents \div 100,
   decimals |-> <<(cents % 100) \div 10, cents % 10>>]

\* As ModelCell, reading the selected model without the fallback to 'N/A'.
ModelCell_noPlaceholder(fixture) == <<"model", fixture.selected_model.id>>

\* The cells of lines 141-142: model_name and manufacturer of the selected
\* model, which the model's id stands for, or the placeholder.
ModelCell(fixture) ==
  IF fixture.selected_model = NoModel THEN <<"N/A">> ELSE <<"model", fixture.selected_model.id>>

\* The cell of line 144: without a selected model the optional chain is
\* undefined and '0.00' is taken.
UnitPriceCell(fixture) ==
  IF fixture.selected_model = NoModel THEN Money(0) ELSE Money(fixture.selected_model.unit_price)

\* tableData, lines 138-146: detected_symbol and room_name, which the
\* fixture's id stands for, the model, the quantity, the unit price and
\* the line total.
TableRow(fixture) ==
  [fixture |-> fixture.id,
   model |-> ModelCell(fixture),
   quantity |-> fixture.quantity,
   unit_price |-> UnitPriceCell(fixture),
   total |-> Money(PriceOrZero(fixture) * fixture.quantity)]

\* As ExportDocument, with the fixtures without a selected model left out of
\* the table.
ExportDocument_skipsUnresolved(projectRow, fixturesList, total) ==
  LET resolved(fixture) == fixture.selected_model # NoModel
      kept == SelectSeq(fixturesList, resolved)
  IN [project |-> projectRow.id,
      totalLine |-> Money(total),
      head |-> <<"Symbol", "Room", "Model", "Manufacturer", "Qty", "Unit Price", "Total">>,
      body |-> [i \in 1..Len(kept) |-> TableRow(kept[i])],
      below |-> <<Money(total)>>]

\* The document of exportToPDF, lines 128-159: the text lines above the
\* table with the project and the total cost, the table with its head and
\* one body row per fixture, and the line 'Total Project Cost' below it.
ExportDocument(projectRow, fixturesList, total) ==
  [project |-> projectRow.id,
   totalLine |-> Money(total),
   head |-> <<"Symbol", "Room", "Model", "Manufacturer", "Qty", "Unit Price", "Total">>,
   body |-> [i \in 1..Len(fixturesList) |-> TableRow(fixturesList[i])],
   below |-> <<Money(total)>>]

\* exportToPDF (lines 127-162), from the button of line 203.
exportToPDF ==
  /\ TableShown
  /\ Len(downloads) < MaxExports
  /\ downloads' = Append(downloads, ExportDocument(project, fixtures, totalCost))
  /\ UNCHANGED <<storeVars, reportVars, appVars, uploadVars, resultsVars, countVars>>

NextExport ==
  \/ Next
  \/ exportToPDF

SpecExport == Init /\ [][NextExport]_vars

\* ------------------------- the Upload page, no store call answered by an error

NextReliable ==
  \/ GoUpload
  \/ LeaveUpload
  \/ \E name \in TypedNames : setProjectName(name)
  \/ \E f \in Files \cup {NoFile} : handleFileChange(f)
  \/ \E f \in Files : handleDrop(f)
  \/ removeFile
  \/ handleSubmit
  \/ \E s \in 1..Len(submits) : ProjectInserted(s)
  \/ \E s \in 1..Len(submits) : ModelsAnswered(s)
  \/ \E s \in 1..Len(submits) : FixturesInserted(s)

SpecReliable == InitEmpty /\ [][NextReliable]_vars

\* ------------------------------- handleModelChange called with any model id

\* Another session inserts a row into fixture_models (the insert policy of
\* part_000:143-146); the page keeps the catalog it has loaded.
InsertModel ==
  /\ Len(catalog) < NModels + MaxInserted
  /\ catalog' = Append(catalog, [id |-> Len(catalog) + 1,
                                 fixture_type |-> "LED Panel",
                                 unit_price |-> PriceOf(Len(catalog) + 1)])
  /\ UNCHANGED <<downloads, reportVars, dbProjects, dbFixtures, appVars, uploadVars, resultsVars, countVars>>

\* The ids handleModelChange is called with besides those of the buttons: the
\* id of a row another session may insert, and an id of no row at all.
OtherModelIds == {NModels + 1, NModels + MaxInserted + 1}

\* handleModelChange(fixture.id, newModelId), lines 94-99, called with a model
\* id that is not in allModels.
handleModelChangeWith(i, newModelId) ==
  /\ TableShown
  /\ newModelId \notin ModelIds(allModels)
  /\ issued < MaxCalls
  /\ issued' = issued + 1
  /\ calls' = Append(calls, [fixtureId |-> fixtures[i].id,
                             newModelId |-> newModelId,
                             fixtures |-> fixtures,
                             allModels |-> allModels,
                             status |-> "pending",
                             live |-> TRUE])
  /\ UNCHANGED <<storeVars, downloads, reportVars, appVars, uploadVars, project, fixtures, allModels, totalCost,
                 loading, loads, applied, visits, uploads>>

InitSelect == Init /\ catalog # <<>>

NextSelect ==
  \/ Next
  \/ InsertModel
  \/ \E i \in 1..Len(fixtures) : \E mid \in OtherModelIds : handleModelChangeWith(i, mid)

SpecSelect == InitSelect /\ [][NextSelect]_vars

\* ------------------------------------- the Results page with any projectId

\* The projectId Results can be rendered with (projectId?: string, line 13;
\* App.tsx:11 and 25): besides the id of a project of the store, the id of
\* no project, and undefined.
OtherProjectIds == {ProjectId(Len(dbProjects) + 1), NULL}

NextLive ==
  \/ Next
  \/ \E pid \in OtherProjectIds : OpenProject(pid)

\* The store answers every request, with rows or with an error.
SpecLive ==
  /\ Init
  /\ [][NextLive]_vars
  /\ WF_vars(\E l \in 1..Len(loads) : LoadProject(l))
  /\ WF_vars(\E l \in 1..Len(loads) : LoadFixtures(l))
  /\ WF_vars(\E l \in 1..Len(loads) : LoadModels(l))

\* ------------------------------------------------------------ Reports page

\* The day of the session, and the most loadProjects runs in flight.
Today == 10
MaxPending == 2

\* Reports.tsx:20 and 23: setDate(getDate() - 7) and gte('total_cost', 1000).
RecentDays == 7
HighCostLimit == 1000

Filters == {"all", "recent", "high-cost"}

\* Upload days and total costs (in cents) of the projects of the store, on
\* both sides of the two limits.
ReportDays == {Today - RecentDays - 1, Today - RecentDays, Today - RecentDays + 1, Today}
ReportCosts == {HighCostLimit * 100 - 1, HighCostLimit * 100, HighCostLimit * 100 + 1}

\* The projects the store holds before the session (part_000:62-74).  upload_date
\* is a timestamp (DEFAULT now(), part_000:67): no two rows have the same one.
ReportSeeds ==
  { [k \in 1..SeedModels |-> [id |-> ProjectId(k),
                              total_fixtures |-> 0,
                              total_cost |-> cost[k],
                              average_lux |-> 0,
                              upload_date |-> day[k]]] :
      cost \in [1..SeedModels -> ReportCosts],
      day \in {d \in [1..SeedModels -> ReportDays] :
                 \A a, b \in 1..SeedModels : a # b => d[a] # d[b]} }

\* The condition of lines 18-24 on a row, for the filter and the sevenDaysAgo
\* of a run.
MatchesFilter(row, f, sevenDaysAgo) ==
  IF f = "recent" THEN row.upload_date >= sevenDaysAgo
  ELSE IF f = "high-cost" THEN row.total_cost >= HighCostLimit * 100
  ELSE TRUE

\* order('upload_date', { ascending: false }), line 26.
RECURSIVE OrderByUploadDate(_)
OrderByUploadDate(rows) ==
  IF rows = <<>>
  THEN <<>>
  ELSE LET k == CHOOSE k \in 1..Len(rows) :
                  \A j \in 1..Len(rows) : rows[j].upload_date <= rows[k].upload_date
       IN <<rows[k]>> \o OrderByUploadDate(RemoveAt(rows, k))

\* The answer of the store to the query of lines 16-26.
QueryProjects(rows, f, sevenDaysAgo) ==
  OrderByUploadDate(SelectSeq(rows, LAMBDA row : MatchesFilter(row, f, sevenDaysAgo)))

\* loadProjects is called (lines 10-12) with the filter of the render: the
\* query is built and sent (lines 16-26).
StartLoadProjects(running, f) ==
  Append(running, [filter |-> f, sevenDaysAgo |-> Today - RecentDays, live |-> TRUE])

\* onNavigate('reports') of the navigation bar (part_000:285): the page is
\* mounted (useState initial values, lines 6-8) and its effect runs.
GoReports ==
  /\ page = "dashboard"
  /\ Len(reportLoads) < MaxPending
  /\ page' = "reports"
  /\ selectedProjectId' = NULL
  /\ projects' = <<>>
  /\ reportsLoading' = TRUE
  /\ filter' = "all"
  /\ loadFailed' = FALSE
  /\ shownFor' = "none"
  /\ reportLoads' = StartLoadProjects(reportLoads, "all")
  /\ UNCHANGED <<storeVars, downloads, navTimers, uploadVars, resultsVars, countVars>>

\* The Reports page is left by the navigation bar: the component and its
\* state go away, its runs keep their requests.
LeaveReports ==
  /\ page = "reports"
  /\ page' = "dashboard"
  /\ selectedProjectId' = NULL
  /\ projects' = <<>>
  /\ reportsLoading' = TRUE
  /\ filter' = "all"
  /\ loadFailed' = FALSE
  /\ shownFor' = "none"
  /\ reportLoads' = Orphaned(reportLoads)
  /\ UNCHANGED <<storeVars, downloads, navTimers, uploadVars, resultsVars, countVars>>

\* The select of lines 56-64: setFilter(f), and the effect of lines 10-12
\* runs loadProjects with the new filter.
setFilter(f) ==
  /\ page = "reports"
  /\ f # filter
  /\ Len(reportLoads) < MaxPending
  /\ filter' = f
  /\ reportLoads' = StartLoadProjects(reportLoads, f)
  /\ UNCHANGED <<projects, reportsLoading, loadFailed, shownFor>>
  /\ UNCHANGED <<storeVars, downloads, appVars, uploadVars, resultsVars, countVars>>

\* Lines 26-29 and 33: the store answers run l with its rows.
ProjectsAnswered(l) ==
  /\ reportLoads' = RemoveAt(reportLoads, l)
  /\ IF reportLoads[l].live
     THEN /\ projects' = QueryProjects(dbProjects, reportLoads[l].filter,
                                       reportLoads[l].sevenDaysAgo)
          /\ shownFor' = reportLoads[l].filter
          /\ reportsLoading' = FALSE
     ELSE UNCHANGED <<projects, shownFor, reportsLoading>>
  /\ UNCHANGED <<filter, loadFailed>>
  /\ UNCHANGED <<storeVars, downloads, appVars, uploadVars, resultsVars, countVars>>

\* Lines 28 and 30-33: the store answers run l with an error.
ProjectsFailed(l) ==
  /\ reportLoads' = RemoveAt(reportLoads, l)
  /\ IF reportLoads[l].live
     THEN /\ loadFailed' = TRUE
          /\ reportsLoading' = FALSE
     ELSE UNCHANGED <<loadFailed, reportsLoading>>
  /\ UNCHANGED <<projects, filter, shownFor>>
  /\ UNCHANGED <<storeVars, downloads, appVars, uploadVars, resultsVars, countVars>>

\* loadProjects (lines 14-35) from its await on, with either answer.
loadProjects(l) == ProjectsAnswered(l) \/ ProjectsFailed(l)

\* The application over a store with projects, before the Reports page opens.
InitReports ==
  /\ catalog = MakeCatalog([i \in 1..NModels |-> "LED Panel"])
  /\ dbProjects \in ReportSeeds
  /\ dbFixtures = <<>>
  /\ InitApplication

NextReports ==
  \/ GoReports
  \/ LeaveReports
  \/ \E f \in Filters : setFilter(f)
  \/ \E l \in 1..Len(reportLoads) : loadProjects(l)

SpecReports == InitReports /\ [][NextReports]_vars

\* ================================================================== claims

\* The sum of quantity * unit price over the fixtures with a resolved model.
RECURSIVE SumOver(_, _)
SumOver(fixturesList, indices) ==
  IF indices = {} THEN 0
  ELSE LET i == CHOOSE k \in indices : TRUE
       IN fixturesList[i].quantity * fixturesList[i].selected_model.unit_price
            + SumOver(fixturesList, indices \ {i})

ExpectedTotal(fixturesList) ==
  SumOver(fixturesList,
          {i \in 1..Len(fixturesList) : fixturesList[i].selected_model # NoModel})

RecommendationIds(fixture) ==
  {fixture.recommendations[r].id : r \in 1..Len(fixture.recommendations)}

\* C1: in every state of the Results page the displayed totalCost is the sum,
\* over the fixtures in memory, of quantity times the unit price of the
\* selected model, a fixture without a resolved model counting as 0.
C1_TotalCostIsSumOfFixtures == totalCost = ExpectedTotal(fixtures)

\* C1 witness: a selection has been applied, one fixture has no resolved
\* model, another one has, and the total is not 0.
C1_Witness ==
  /\ page = "results"
  /\ applied > 0
  /\ totalCost > 0
  /\ \E i \in 1..Len(fixtures) : fixtures[i].selected_model = NoModel
  /\ \E i \in 1..Len(fixtures) : fixtures[i].quantity > 1 /\ fixtures[i].selected_model # NoModel

\* C2: the continuation of a successful ApplySelection leaves every fixture
\* other than the one with the given id as it was just before it ran.
C2_OthersUnchanged ==
  [][\A c \in 1..Len(calls) :
       (calls[c].status = "ok" /\ calls[c].live /\ ModelChangeApplied(c))
         => /\ Len(fixtures') = Len(fixtures)
            /\ \A j \in 1..Len(fixtures) :
                 fixtures[j].id # calls[c].fixtureId => fixtures'[j] = fixtures[j]]_vars

\* C3: the continuation of an ApplySelection whose store update returned an
\* error leaves the fixture list and totalCost as they were.
C3_FailureChangesNothing ==
  [][(\E c \in 1..Len(calls) :
        calls[c].status = "error" /\ calls[c].live /\ calls' = RemoveAt(calls, c))
       => (fixtures' = fixtures /\ totalCost' = totalCost)]_vars

\* C3 witness: the one ApplySelection of the page has ended, and it ended
\* by an error: nothing was applied.
C3_Witness ==
  /\ page = "results"
  /\ issued = 1
  /\ applied = 0
  /\ calls = <<>>
  /\ totalCost > 0
  /\ \E i \in 1..Len(fixtures) : fixtures[i].showRecommendations

LiveCalls == {c \in 1..Len(calls) : calls[c].live}

\* C5: while an ApplySelection waits for the store no other ApplySelection
\* waits with it and the fixture list is the one its handler captured, so
\* the list it will write is computed from the current state.
C5_HandlersRunToCompletion ==
  /\ Cardinality(LiveCalls) <= 1
  /\ \A c \in LiveCalls : calls[c].fixtures = fixtures

SelectionOf(fixture) == <<fixture.selected_model_id, fixture.selected_model>>

\* C6: a step of the Results page, other than the end of a load, that changes
\* the selected model of a fixture in memory is the continuation of an
\* ApplySelection whose update the store has answered with success.
C6_ChangeOnlyAfterStoreSuccess ==
  [][(/\ page = "results" /\ page' = "results"
      /\ loads' = loads
      /\ \/ Len(fixtures') # Len(fixtures)
         \/ \E i \in 1..Len(fixtures) :
              SelectionOf(fixtures'[i]) # SelectionOf(fixtures[i]))
       => \E c \in LiveCalls :
            /\ calls[c].status = "ok"
            /\ calls' = RemoveAt(calls, c)]_vars

\* C6 witness: a selection has been applied in memory while another
\* ApplySelection still waits for the store.
C6_Witness ==
  /\ page = "results"
  /\ applied > 0
  /\ \E c \in LiveCalls : calls[c].status = "pending"
  /\ \E i \in 1..Len(fixtures) :
       fixtures[i].selected_model_id \in RecommendationIds(fixtures[i])

\* C7: the continuation of a successful ApplySelection changes totalCost by
\* (newPrice - oldPrice) * quantity of the fixture it is about.
C7_TotalChangesByPriceDifference ==
  [][\A c \in 1..Len(calls) :
       (calls[c].status = "ok" /\ calls[c].live /\ ModelChangeApplied(c))
         => \A j \in 1..Len(fixtures) :
              fixtures[j].id = calls[c].fixtureId
                => totalCost' - totalCost =
                     (FindModel(allModels, calls[c].newModelId).unit_price
                        - PriceOrZero(fixtures[j])) * fixtures[j].quantity]_vars

\* The positions of the catalog models of the type of the fixture's selected
\* model, the selected model itself left out.
Alternatives(fixture, models) ==
  {k \in 1..Len(models) :
     /\ fixture.selected_model # NoModel
     /\ models[k].fixture_type = fixture.selected_model.fixture_type
     /\ models[k].id # fixture.selected_model_id}

\* The list a fixture has after the load: the first 3 alternatives (all of
\* them when there are fewer), in catalog order.
IsFirstAlternatives(fixture, models) ==
  LET alt == Alternatives(fixture, models)
      recs == fixture.recommendations
  IN /\ Len(recs) = Min(3, Cardinality(alt))
     /\ \A r \in 1..Len(recs) :
          \E k \in alt : /\ Cardinality({j \in alt : j < k}) = r - 1
                         /\ recs[r] = models[k]

\* C9: the step that ends the initial load leaves every fixture with the
\* first 3 alternatives of its selected model and with its list hidden.
C9_LoadGivesFirstThreeHidden ==
  [][(page = "results" /\ loading /\ ~loading')
       => \A i \in 1..Len(fixtures') :
            /\ IsFirstAlternatives(fixtures'[i], catalog)
            /\ ~fixtures'[i].showRecommendations]_vars

\* C9 witness: the load is over and nothing else has happened; one fixture
\* has 3 of its 4 alternatives, another one has no selected model and no list.
C9_Witness ==
  /\ page = "results"
  /\ ~loading
  /\ issued = 0
  /\ \E i \in 1..Len(fixtures) :
       /\ Len(fixtures[i].recommendations) = 3
       /\ Cardinality(Alternatives(fixtures[i], allModels)) > 3
       /\ ~fixtures[i].showRecommendations
  /\ \E i \in 1..Len(fixtures) :
       fixtures[i].selected_model = NoModel /\ fixtures[i].recommendations = <<>>

\* C8: calculateTotalCost sets the total to the sum of quantity * unit price
\* over the fixtures of the list with a resolved model, whatever the list;
\* the total of the empty list is 0.
C8_TotalOfAnyList ==
  ~loading => /\ totalCost = ExpectedTotal(fixtures)
              /\ fixtures = <<>> => totalCost = 0

\* C8 witness: the total of a list of the greatest length with a fixture
\* without model and a fixture of a quantity above 1.
C8_Witness ==
  /\ ~loading
  /\ Len(fixtures) = MaxLen
  /\ totalCost > 0
  /\ \E i \in 1..Len(fixtures) : fixtures[i].selected_model = NoModel
  /\ \E i \in 1..Len(fixtures) : fixtures[i].selected_model # NoModel /\ fixtures[i].quantity > 1

\* C10: every selected_model_id that is set references a model of the
\* catalog: in the rows of the store, in the fixtures in memory (whose
\* selected model is that model), in the batch an upload is about to insert
\* and in the id an ApplySelection was called with.
C10_SelectedModelExists ==
  /\ \A i \in 1..Len(dbFixtures) :
       dbFixtures[i].selected_model_id # NULL
         => dbFixtures[i].selected_model_id \in ModelIds(catalog)
  /\ \A i \in 1..Len(fixtures) :
       fixtures[i].selected_model_id # NULL
         => /\ fixtures[i].selected_model_id \in ModelIds(catalog)
            /\ fixtures[i].selected_model = FindModel(catalog, fixtures[i].selected_model_id)
  /\ \A s \in 1..Len(submits) :
       \A i \in 1..Len(submits[s].fixturesData) :
         submits[s].fixturesData[i].selected_model_id \in ModelIds(catalog)
  /\ \A c \in 1..Len(calls) : calls[c].newModelId \in ModelIds(catalog)

\* C10 witness: after an upload, a selection change made on the Results page
\* is in the store and in memory.
C10_Witness ==
  /\ page = "results"
  /\ uploads > 0
  /\ applied > 0
  /\ \E i \in 1..Len(fixtures) :
       /\ fixtures[i].selected_model_id \in RecommendationIds(fixtures[i])
       /\ \E k \in 1..Len(dbFixtures) :
            /\ dbFixtures[k].id = fixtures[i].id
            /\ dbFixtures[k].selected_model_id = fixtures[i].selected_model_id

\* C11: no step of an ApplySelection called with a model id that is not in
\* the loaded catalog changes the stored selected model id of a fixture, the
\* selected model id or selected model of a fixture in memory, or totalCost.
C11_AbsentModelIsNoOp ==
  [][\A c \in LiveCalls :
       (/\ calls[c].newModelId \notin ModelIds(calls[c].allModels)
        /\ \/ StoreUpdate(c)
           \/ ModelChangeApplied(c)
           \/ ModelChangeFailed(c))
         => /\ dbFixtures' = dbFixtures
            /\ totalCost' = totalCost
            /\ Len(fixtures') = Len(fixtures)
            /\ \A j \in 1..Len(fixtures) :
                 SelectionOf(fixtures'[j]) = SelectionOf(fixtures[j])]_vars

\* The update requests the store has not answered yet.
PendingUpdates(cs) == Cardinality({c \in 1..Len(cs) : cs[c].status = "pending"})

\* C12: a step that starts an ApplySelection sends one update request to the
\* store, and no other step sends one: not the continuation after a success,
\* and not the continuation after an error.
C12_OneRequestPerCall ==
  [][/\ issued' = issued + 1 => PendingUpdates(calls') = PendingUpdates(calls) + 1
     /\ issued' # issued + 1 => PendingUpdates(calls') <= PendingUpdates(calls)]_vars

\* C12 witness: two ApplySelection calls of the page have ended, one by
\* success and one by an error, and no request is left.
C12_Witness ==
  /\ page = "results"
  /\ issued = 2
  /\ applied = 1
  /\ calls = <<>>

\* C13: after a ToggleRecommendations step on a fixture the button is still
\* there, and a second ToggleRecommendations on the same fixture gives back
\* the fixture list, and with it the visibility flag, of before the first.
C13_ToggleTwiceRestores ==
  [][\A i \in 1..Len(fixtures) :
       toggleRecommendations(i)
         => /\ TableShown'
            /\ Len(fixtures') = Len(fixtures)
            /\ Len(fixtures'[i].recommendations) > 0
            /\ Toggled(fixtures', fixtures'[i].id) = fixtures
            /\ Toggled(fixtures', fixtures'[i].id)[i].showRecommendations
                 = fixtures[i].showRecommendations]_vars

\* C13 witness: before any selection, one list is open and another fixture
\* that has alternatives keeps its list closed.
C13_Witness ==
  /\ TableShown
  /\ issued = 0
  /\ \E i, j \in 1..Len(fixtures) :
       /\ fixtures[i].showRecommendations
       /\ ~fixtures[j].showRecommendations
       /\ Len(fixtures[j].recommendations) > 0

\* The fields of a fixture but its visibility flag.
HiddenPart(fixture) == [fixture EXCEPT !.showRecommendations = FALSE]

\* C14: a ToggleRecommendations step negates the visibility flag of the
\* fixture it is about and changes nothing else: no other field of that
\* fixture, no other fixture, no request to the store, no table of the
\* store, not the loaded catalog and not totalCost.
C14_ToggleChangesOneFlagOnly ==
  [][\A i \in 1..Len(fixtures) :
       toggleRecommendations(i)
         => /\ Len(fixtures') = Len(fixtures)
            /\ fixtures'[i].showRecommendations = ~fixtures[i].showRecommendations
            /\ HiddenPart(fixtures'[i]) = HiddenPart(fixtures[i])
            /\ \A j \in 1..Len(fixtures) : j # i => fixtures'[j] = fixtures[j]
            /\ calls' = calls
            /\ <<catalog', dbProjects', dbFixtures'>> = <<catalog, dbProjects, dbFixtures>>
            /\ allModels' = allModels
            /\ totalCost' = totalCost]_vars

\* C14 witness: a list was toggled while an ApplySelection waits for the
\* store; the request is still the only one.
C14_Witness ==
  /\ TableShown
  /\ applied = 0
  /\ Len(calls) = 1
  /\ \E c \in LiveCalls :
       /\ calls[c].status = "pending"
       /\ \E j \in 1..Len(fixtures) :
            /\ fixtures[j].showRecommendations # calls[c].fixtures[j].showRecommendations
            /\ HiddenPart(fixtures[j]) = HiddenPart(calls[c].fixtures[j])

\* The fixture of a list with a given id.
FixtureWithId(fixturesList, fixtureId) ==
  fixturesList[CHOOSE j \in 1..Len(fixturesList) : fixturesList[j].id = fixtureId]

\* C15: the continuation of a successful ApplySelection leaves the fixture
\* it is about with the recommendation list and the visibility flag it had
\* when the call was made, and with the list it had just before the
\* continuation; no step of the page but the end of a load changes a
\* recommendation list.
C15_RecommendationsNotRecomputed ==
  [][/\ \A c \in LiveCalls :
          (calls[c].status = "ok" /\ ModelChangeApplied(c))
            => LET before == FixtureWithId(calls[c].fixtures, calls[c].fixtureId)
                   now == FixtureWithId(fixtures, calls[c].fixtureId)
                   after == FixtureWithId(fixtures', calls[c].fixtureId)
               IN /\ after.recommendations = before.recommendations
                  /\ after.recommendations = now.recommendations
                  /\ after.showRecommendations = before.showRecommendations
     /\ (page = "results" /\ page' = "results" /\ loads' = loads)
          => /\ Len(fixtures') = Len(fixtures)
             /\ \A j \in 1..Len(fixtures) :
                  fixtures'[j].recommendations = fixtures[j].recommendations]_vars

\* C15 witness: a selection has been applied, the fixture shows a model of
\* its own list, and the list is still open.
C15_Witness ==
  /\ TableShown
  /\ applied > 0
  /\ calls = <<>>
  /\ \E i \in 1..Len(fixtures) :
       /\ fixtures[i].selected_model_id \in RecommendationIds(fixtures[i])
       /\ fixtures[i].showRecommendations
       /\ Len(fixtures[i].recommendations) = 3

\* C16: no step changes a project record the store holds: records are added
\* by uploads, and the steps of ApplySelection leave the table as it is, so
\* a record keeps the total_cost, total_fixtures and average_lux it was
\* created with.
C16_ProjectRecordsNeverRewritten ==
  [][/\ Len(dbProjects') >= Len(dbProjects)
     /\ \A k \in 1..Len(dbProjects) : dbProjects'[k] = dbProjects[k]
     /\ \A c \in 1..Len(calls) :
          (StoreUpdate(c) \/ ModelChangeApplied(c) \/ ModelChangeFailed(c))
            => dbProjects' = dbProjects]_vars

\* C16 witness: a selection of an uploaded project has been applied and
\* stored; the record of the project holds the total written by the upload,
\* which is not the total shown.
C16_Witness ==
  /\ TableShown
  /\ uploads > 0
  /\ applied > 0
  /\ QueryProject(project.id).total_cost = QueryProject(project.id).total_fixtures * 3550
  /\ QueryProject(project.id).average_lux \in AverageLux
  /\ QueryProject(project.id).total_cost # totalCost
  /\ \E k \in 1..Len(dbFixtures) :
       \E i \in 1..Len(fixtures) :
         /\ dbFixtures[k].id = fixtures[i].id
         /\ dbFixtures[k].selected_model_id = fixtures[i].selected_model_id
         /\ fixtures[i].selected_model_id \in RecommendationIds(fixtures[i])

\* C17: as long as the store answers every call of an upload without error,
\* handleSubmit never ends in its failure state.
C17_FailsOnlyOnStoreError ==
  error # "Failed to upload and process file. Please try again."

\* A file the upload accepts: extension dwg or dxf in any case, at most 50 MB.
ValidFile(f) ==
  /\ ToLowerCase(f.ext) \in {"dwg", "dxf"}
  /\ f.size <= 50 * 1024 * 1024

\* C18: the selected file is always a valid one; a handleSubmit sends its
\* first store request only with a valid file selected and a project name
\* that is not empty after trimming; a file handleFileChange or handleDrop
\* rejects is not selected and leaves an error message on a form that still
\* takes input, as does a handleSubmit that rejects the project name.
C18_ValidationGuardsTheStore ==
  [][/\ file' # NoFile => ValidFile(file')
     /\ Len(submits') > Len(submits)
          => /\ file # NoFile
             /\ ValidFile(file)
             /\ Trim(projectName) # ""
     /\ \A f \in Files :
          (~ValidFile(f) /\ (handleFileChange(f) \/ handleDrop(f)))
            => /\ file' = NoFile
               /\ error' # ""
               /\ ~uploading'
               /\ page' = "upload"
               /\ <<submits', dbProjects', dbFixtures'>> = <<submits, dbProjects, dbFixtures>>
     /\ (handleSubmit /\ Trim(projectName) = "")
          => /\ error' # ""
             /\ ~uploading'
             /\ page' = "upload"
             /\ <<submits', dbProjects', dbFixtures'>> = <<submits, dbProjects, dbFixtures>>]_vars

\* C18 witness: an upload runs for a file of exactly 50 MB with the
\* extension in capitals, under the name taken from the file.
C18_Witness ==
  /\ page = "upload"
  /\ uploading
  /\ Len(submits) = 1
  /\ file.ext = "DXF"
  /\ file.size = MaxFileBytes
  /\ projectName = NameOfFile(file)
  /\ error = ""

\* C19: the step that ends a handleSubmit run of the page shown, by success
\* or by an error, leaves uploading false; a step that ends a
\* loadProjectData run of the page shown leaves loading false; the
\* continuation of a failed ApplySelection leaves the fixture table shown
\* as it was, with every button it had.
C19_InteractiveAfterFailure ==
  [][/\ \A s \in 1..Len(submits) :
          (submits[s].live /\ page' = "upload" /\ submits' = RemoveAt(submits, s))
            => ~uploading'
     /\ (page = "results" /\ page' = "results" /\ Len(loads') < Len(loads))
          => ~loading'
     /\ \A c \in LiveCalls :
          (calls[c].status = "error" /\ ModelChangeFailed(c))
            => /\ TableShown'
               /\ fixtures' = fixtures]_vars

\* C19 witness: an upload has failed; the form shows the message, keeps the
\* file and takes input again.
C19_Witness ==
  /\ page = "upload"
  /\ error = "Failed to upload and process file. Please try again."
  /\ ~uploading
  /\ ~success
  /\ submits = <<>>
  /\ file # NoFile

\* The document an export step saves.
Saved(docs) == docs[Len(docs)]

C21_ExportReadsMemoryOnly ==
  [][Len(downloads') > Len(downloads)
       => LET doc == Saved(downloads')
          IN /\ <<calls', loads', submits'>> = <<calls, loads, submits>>
             /\ <<catalog', dbProjects', dbFixtures'>> = <<catalog, dbProjects, dbFixtures>>
             /\ <<fixtures', totalCost', allModels', project'>>
                  = <<fixtures, totalCost, allModels, project>>
             /\ Len(doc.body) = Len(fixtures)
             /\ doc.totalLine = Money(totalCost)
             /\ \A i \in 1..Len(fixtures) :
                  /\ fixtures[i].selected_model = NoModel
                       => /\ doc.body[i].model = <<"N/A">>
                          /\ doc.body[i].unit_price = Money(0)
                          /\ doc.body[i].total = Money(0)
                  /\ fixtures[i].selected_model # NoModel
                       => /\ doc.body[i].model = <<"model", fixtures[i].selected_model_id>>
                          /\ doc.body[i].unit_price
                               = Money(fixtures[i].selected_model.unit_price)]_vars

\* C21 witness: a document exported while an update request waits for the
\* store, with a row N/A, from a list in memory that is not what the store
\* holds for a fixture with a model.
C21_Witness ==
  /\ TableShown
  /\ Len(downloads) = 1
  /\ \E c \in LiveCalls : calls[c].status = "ok"
  /\ \E i \in 1..Len(downloads[1].body) : downloads[1].body[i].model = <<"N/A">>
  /\ \E i \in 1..Len(fixtures) :
       /\ fixtures[i].selected_model # NoModel
       /\ downloads[1].body[i].model = <<"model", fixtures[i].selected_model_id>>
       /\ \E k \in 1..Len(dbFixtures) :
            /\ dbFixtures[k].id = fixtures[i].id
            /\ dbFixtures[k].selected_model_id # fixtures[i].selected_model_id

\* C22: on a mounted Results page allModels changes only in the step that
\* ends the load, from the empty initial value to the catalog the store
\* answered with; no step of ApplySelection, ToggleRecommendations or the
\* export changes it.
C22_CatalogWrittenByLoadOnly ==
  [][/\ (page = "results" /\ page' = "results" /\ allModels' # allModels)
          => /\ Len(loads') < Len(loads)
             /\ allModels = <<>>
             /\ allModels' = catalog
     /\ (\/ \E i \in 1..Len(fixtures) : toggleRecommendations(i)
         \/ \E i \in 1..Len(fixtures) :
              \E r \in 1..Len(fixtures[i].recommendations) : handleModelChange(i, r)
         \/ \E c \in 1..Len(calls) :
              StoreUpdate(c) \/ ModelChangeApplied(c) \/ ModelChangeFailed(c)
         \/ exportToPDF)
          => allModels' = allModels]_vars

\* C22 witness: a selection was applied, a list toggled and a document
\* exported, and allModels is the catalog of the store.
C22_Witness ==
  /\ TableShown
  /\ applied > 0
  /\ Len(downloads) = 1
  /\ allModels = catalog
  /\ Len(allModels) = NModels
  /\ \E i \in 1..Len(fixtures) : ~fixtures[i].showRecommendations /\ fixtures[i].selected_model_id \in RecommendationIds(fixtures[i])

\* The row the store holds for a fixture in memory.
StoredRow(fixture) ==
  dbFixtures[CHOOSE k \in 1..Len(dbFixtures) : dbFixtures[k].id = fixture.id]

\* C23: when every ApplySelection started on the page has completed with
\* success, every fixture in memory has the selected model id the store
\* holds for it.
C23_MemoryEqualsStoreAfterCalls ==
  (TableShown /\ issued > 0 /\ applied = issued /\ calls = <<>>)
    => \A i \in 1..Len(fixtures) :
         fixtures[i].selected_model_id = StoredRow(fixtures[i]).selected_model_id

\* C24: on the Results page every model of a fixture's recommendation list
\* has the fixture type of the model the fixture has selected, and a fixture
\* without selected model has an empty list; a step of the page, the end of
\* a load apart, leaves a fixture without model without one.
C24_ListSharesTypeOfSelection ==
  /\ [](\A i \in 1..Len(fixtures) :
          /\ fixtures[i].selected_model = NoModel
               => /\ fixtures[i].recommendations = <<>>
                  /\ fixtures[i].selected_model_id = NULL
          /\ \A r \in 1..Len(fixtures[i].recommendations) :
               fixtures[i].recommendations[r].fixture_type
                 = fixtures[i].selected_model.fixture_type)
  /\ [][(page = "results" /\ page' = "results" /\ loads' = loads)
          => /\ Len(fixtures') = Len(fixtures)
             /\ \A j \in 1..Len(fixtures) :
                  fixtures[j].selected_model = NoModel
                    => /\ fixtures'[j].selected_model = NoModel
                       /\ fixtures'[j].selected_model_id = NULL]_vars

\* C24 witness: a fixture shows a model taken from its full list, and a
\* fixture without model is still without one, after two selections.
C24_Witness ==
  /\ TableShown
  /\ applied = 2
  /\ \E i \in 1..Len(fixtures) :
       /\ fixtures[i].selected_model_id \in RecommendationIds(fixtures[i])
       /\ Len(fixtures[i].recommendations) = 3
  /\ \E i \in 1..Len(fixtures) :
       fixtures[i].selected_model = NoModel /\ fixtures[i].recommendations = <<>>

\* C25: within a session of the Results page a fixture that shows a model
\* of its recommendation list, that is a fixture whose model was changed,
\* shows a model of that list after every further step: it never shows
\* again the model it was loaded with, which is not in the list.
C25_NeverBackToInitialModel ==
  [][(page = "results" /\ page' = "results" /\ loads' = loads)
       => \A j \in 1..Len(fixtures) :
            fixtures[j].selected_model_id \in RecommendationIds(fixtures[j])
              => /\ j <= Len(fixtures')
                 /\ fixtures'[j].selected_model_id \in RecommendationIds(fixtures'[j])]_vars

\* The fixture rows the store holds for a project.
RowsOfProject(rows, id) == {k \in 1..Len(rows) : rows[k].project_id = id}

\* C26: a run of handleSubmit that ends after its project insert without
\* inserting fixtures leaves the project row in the store, with no fixture
\* row; it sets the error message, does not set success and schedules no
\* navigation.
C26_FailedUploadKeepsProjectRow ==
  [][\A s \in 1..Len(submits) :
       (/\ submits[s].pc \in {"queryModels", "insertFixtures"}
        /\ submits' = RemoveAt(submits, s)
        /\ dbFixtures' = dbFixtures)
         => /\ dbProjects' = dbProjects
            /\ \E k \in 1..Len(dbProjects') : dbProjects'[k].id = submits[s].projectId
            /\ RowsOfProject(dbFixtures', submits[s].projectId) = {}
            /\ navTimers' = navTimers
            /\ success' = success
            /\ submits[s].live
                 => /\ error' = "Failed to upload and process file. Please try again."
                    /\ ~success'
                    /\ ~uploading']_vars

\* C26 witness: the Upload page shows the failure message of a run whose
\* project row is in the store without fixture rows.
C26_Witness ==
  /\ page = "upload"
  /\ submits = <<>>
  /\ uploads = 1
  /\ error = "Failed to upload and process file. Please try again."
  /\ ~success
  /\ navTimers = <<>>
  /\ Len(dbProjects) = 1
  /\ RowsOfProject(dbFixtures, dbProjects[1].id) = {}

\* C27: a project of the store that has fixture rows has as many of them as
\* its total_fixtures says.
C27_TotalFixturesCountsRows ==
  \A p \in 1..Len(dbProjects) :
    RowsOfProject(dbFixtures, dbProjects[p].id) # {}
      => dbProjects[p].total_fixtures
           = Cardinality(RowsOfProject(dbFixtures, dbProjects[p].id))

NewestFirst(Keep(_)) == OrderByUploadDate(SelectSeq(dbProjects, Keep))

\* C30: a list shown for the filter 'High Cost (> $1000)' is made of exactly
\* the projects whose total cost is above 1000, a list shown for 'Recent
\* (Last 7 Days)' of exactly those uploaded in the last seven days, both
\* newest upload first.
C30_FilterLabelsAreExact ==
  /\ shownFor = "high-cost"
       => projects = NewestFirst(LAMBDA row : row.total_cost > HighCostLimit * 100)
  /\ shownFor = "recent"
       => projects = NewestFirst(LAMBDA row : row.upload_date >= Today - RecentDays)

\* C29: a Results page that is shown stops loading, or is left, whatever
\* projectId it was rendered with.
C29_LoadingEnds == (page = "results") ~> (~loading \/ page # "results")

====
